---- MODULE Spec2Model ----
(***************************************************************************)
(* A state-machine model of LogSentinel's staged training controller       *)
(* (engine/training_controller.py) and of the hybrid model's               *)
(* sequence -> logits pipeline (logsentinel_model.py).                     *)
(*                                                                         *)
(* Spec     : TrainingController.run() as a sequence of steps, one per     *)
(*            call of an external collaborator; every collaborator call    *)
(*            may raise.                                                   *)
(* SpecSigned : Spec under epoch counts of either sign.                    *)
(* SpecFwd  : LogSentinelModel.forward on a drawn batch followed by the    *)
(*            evaluator's metric aggregation.                              *)
(* SpecTrainHelper : LogSentinelModel.train_helper on a drawn micro-batch. *)
(* SpecStager  : the four trainability modes, activated in any order.      *)
(* SpecSampler : the oversampled index list of run().                      *)
(* SpecPeft    : save_ft_model followed by the construction of a model.    *)
(***************************************************************************)
EXTENDS Integers, Naturals, Sequences, FiniteSets, TLC

VARIABLES pc, hp, self, loc, tp, trainable, obs, fwd, smp, ft

vars == <<pc, hp, self, loc, tp, trainable, obs, fwd, smp, ft>>

(* ------------------------------ bounds -------------------------------- *)
MaxMicroBatch == 2      \* micro_batch_size ranges over 1..MaxMicroBatch
MaxAccum == 2           \* batch_size // micro_batch_size ranges over 1..MaxAccum
MaxEpochs == 2          \* n_epochs_phaseK ranges up to MaxEpochs
MaxTotalEpochs == 3     \* the positive epoch counts add up to at most MaxTotalEpochs
MaxSteps == 4           \* iterations of the micro-batch loop in one run, all epochs together
MaxNegEpochs == 1       \* SpecSigned: the negative epoch counts add up to -MaxNegEpochs at least
MaxLess == 1            \* minority count of the training set
MaxMajor == 2           \* majority count of the training set
MaxEmpty == 1           \* entries of the index list whose log list is empty
MaxTest == 1            \* size of the test set, 0..MaxTest
MaxBatch == 2           \* samples handed to the model pipeline, 1..MaxBatch
MaxLines == 3           \* log lines of one sample, 0..MaxLines
MaxSeqLen == 3          \* max_seq_len ranges over 1..MaxSeqLen
MaxMinority == 2        \* SpecSampler: minority count of the training set
MaxMajority == 3        \* SpecSampler: majority count of the training set
MaxActivations == 2     \* SpecStager: modes activated one after the other
MaxWeight == 3          \* SpecPeft: trained values of a component, 1..MaxWeight

(* --------------------------- hyperparameters -------------------------- *)
\* hp['min_less_portion'], read only while the index list is built: the double
\* nearest to a fraction num/den, or absent from the dictionary
PortionChoices ==
    { [present |-> FALSE, num |-> 0, den |-> 1],
      [present |-> TRUE,  num |-> 0, den |-> 1],
      [present |-> TRUE,  num |-> 1, den |-> 2] }

\* the part of an epoch count above zero, and the part below
Pos(n) == IF n > 0 THEN n ELSE 0
Neg(n) == IF n < 0 THEN 0 - n ELSE 0

\* the hyperparameters with epoch counts of either sign
SignedHyperparameters ==
    { h \in [ micro_batch_size : 1..MaxMicroBatch,
              accum            : 1..MaxAccum,
              n_epochs         : [1..4 -> (0 - MaxNegEpochs)..MaxEpochs] ] :
        /\ Pos(h.n_epochs[1]) + Pos(h.n_epochs[2]) + Pos(h.n_epochs[3])
              + Pos(h.n_epochs[4]) <= MaxTotalEpochs
        /\ Neg(h.n_epochs[1]) + Neg(h.n_epochs[2]) + Neg(h.n_epochs[3])
              + Neg(h.n_epochs[4]) <= MaxNegEpochs }

\* the hyperparameters with no negative epoch count
Hyperparameters == { h \in SignedHyperparameters : \A k \in 1..4 : h.n_epochs[k] >= 0 }

\* lines 75 and 80: the iterations of the micro-batch loop that a run over an index
\* list of n entries makes when no epoch is cut short
TrainingIterations(h, n) ==
    (Pos(h.n_epochs[1]) + Pos(h.n_epochs[2]) + Pos(h.n_epochs[3]) + Pos(h.n_epochs[4]))
        * ((n + h.micro_batch_size - 1) \div h.micro_batch_size)

\* hp['batch_size']: a multiple of micro_batch_size
batch_size(h) == h.accum * h.micro_batch_size

\* line 73: grad_accum_steps = batch_size // micro_batch_size
grad_accum_steps(h) == batch_size(h) \div h.micro_batch_size

(* ---------------------- binary floating point -------------------------- *)
\* Line 181 computes in Python floats: IEEE 754 doubles, 53 significant bits, every
\* operation rounded to nearest with ties to even. A significand does not fit the
\* integers of the model checker, so a natural number is kept as the list of its
\* digits in base 2^15, least significant first and without leading zeros; <<>> is 0.
DigitBits == 15

Base == 2 ^ DigitBits

\* the significant bits of a double
Precision == 53

RECURSIVE Digits(_)
Digits(n) == IF n = 0 THEN <<>> ELSE <<n % Base>> \o Digits(n \div Base)

RECURSIVE ToInt(_)
ToInt(x) == IF x = <<>> THEN 0 ELSE x[1] + Base * ToInt(Tail(x))

RECURSIVE Trim(_)
Trim(x) ==
    IF x = <<>> THEN <<>>
    ELSE IF x[Len(x)] = 0 THEN Trim(SubSeq(x, 1, Len(x) - 1))
    ELSE x

\* x * k + carry for a digit k
RECURSIVE MulSmall(_, _, _)
MulSmall(x, k, carry) ==
    IF x = <<>> THEN Digits(carry)
    ELSE <<(x[1] * k + carry) % Base>>
            \o MulSmall(Tail(x), k, (x[1] * k + carry) \div Base)

Times(x, k) == Trim(MulSmall(x, k, 0))

Half(x) ==
    Trim([i \in 1..Len(x) |->
            (x[i] \div 2) + (IF i < Len(x) THEN (x[i + 1] % 2) * (Base \div 2) ELSE 0)])

RECURSIVE LessAt(_, _, _)
LessAt(x, y, i) ==
    IF i = 0 THEN FALSE
    ELSE IF x[i] # y[i] THEN x[i] < y[i]
    ELSE LessAt(x, y, i - 1)

\* x < y
Less(x, y) == IF Len(x) # Len(y) THEN Len(x) < Len(y) ELSE LessAt(x, y, Len(x))

RECURSIVE SubFrom(_, _, _, _)
SubFrom(x, y, i, borrow) ==
    IF i > Len(x) THEN <<>>
    ELSE LET t == x[i] - (IF i <= Len(y) THEN y[i] ELSE 0) - borrow
         IN <<IF t < 0 THEN t + Base ELSE t>>
               \o SubFrom(x, y, i + 1, IF t < 0 THEN 1 ELSE 0)

\* x - y, for x >= y
Sub(x, y) == Trim(SubFrom(x, y, 1, 0))

\* 2^n
Pow2(n) ==
    [i \in 1..((n \div DigitBits) + 1) |->
        IF i = (n \div DigitBits) + 1 THEN 2 ^ (n % DigitBits) ELSE 0]

\* x * 2^n, a digit at a time where n allows
RECURSIVE ShiftLeft(_, _)
ShiftLeft(x, n) ==
    IF x = <<>> \/ n = 0 THEN x
    ELSE IF n >= DigitBits THEN ShiftLeft(<<0>> \o x, n - DigitBits)
    ELSE MulSmall(x, 2 ^ n, 0)

\* x \div 2^n
RECURSIVE ShiftRight(_, _)
ShiftRight(x, n) ==
    IF x = <<>> \/ n = 0 THEN x
    ELSE IF n >= DigitBits THEN ShiftRight(Tail(x), n - DigitBits)
    ELSE ShiftRight(Half(x), n - 1)

\* the number of bits of x
BitLength(x) ==
    IF x = <<>> THEN 0
    ELSE DigitBits * (Len(x) - 1)
            + (CHOOSE b \in 1..DigitBits : 2 ^ (b - 1) <= x[Len(x)] /\ x[Len(x)] < 2 ^ b)

\* the two digits of cur at the places n + 1 and n, as one number
LeadingDigits(cur, n) ==
    (IF Len(cur) > n THEN cur[n + 1] ELSE 0) * Base + (IF Len(cur) >= n THEN cur[n] ELSE 0)

\* the quotient digit estimated from the leading digits
Estimate(top, lead) == IF top \div lead < Base THEN top \div lead ELSE Base - 1

\* the largest c with d * c <= cur, given an estimate that is at most two too large
Corrected(cur, d, est) ==
    IF ~Less(cur, Times(d, est)) THEN est
    ELSE IF ~Less(cur, Times(d, est - 1)) THEN est - 1
    ELSE est - 2

\* one digit of a long division: the largest c with d * c <= cur, where cur < d * Base
\* and the leading digit of d is at least Base / 2
QuotientDigit(cur, d) == Corrected(cur, d, Estimate(LeadingDigits(cur, Len(d)), d[Len(d)]))

RECURSIVE LongDivision(_, _, _, _, _)

\* the step of a long division that found the quotient digit c for the running
\* remainder cur; leading zeros of the quotient are not kept
DivisionStep(x, d, i, cur, q, c) ==
    IF c = 0
    THEN LongDivision(x, d, i - 1, cur, IF q = <<>> THEN q ELSE <<0>> \o q)
    ELSE LongDivision(x, d, i - 1, Sub(cur, Times(d, c)), <<c>> \o q)

\* the step of a long division for the running remainder cur
DivisionAt(x, d, i, cur, q) == DivisionStep(x, d, i, cur, q, QuotientDigit(cur, d))

\* digits i, i - 1, ..., 1 of x divided by d, with r the remainder and q the quotient
\* of the digits above them: <<quotient, remainder>>
LongDivision(x, d, i, r, q) ==
    IF i = 0 THEN <<q, r>> ELSE DivisionAt(x, d, i, Trim(<<x[i]>> \o r), q)

\* <<xs \div ds, xs % ds>> where the leading digit of ds is at least Base / 2: the
\* leading Len(ds) - 1 digits of xs are below ds and start as the remainder
DivModScaled(xs, ds) ==
    IF Len(xs) < Len(ds) THEN <<<<>>, xs>>
    ELSE LongDivision(xs, ds, Len(xs) - Len(ds) + 1,
                      SubSeq(xs, Len(xs) - Len(ds) + 2, Len(xs)), <<>>)

\* <<x \div d, (x % d) * 2^t>> for d > 0, where the shift t brings the leading digit
\* of the divisor to Base / 2 at least
DivMod(x, d) ==
    DivModScaled(ShiftLeft(x, DigitBits * Len(d) - BitLength(d)),
                 ShiftLeft(d, DigitBits * Len(d) - BitLength(d)))

\* A double is sign * m * 2^e with 2^52 <= m < 2^53, or zero (m = <<>>). The values
\* of line 181 are far from the subnormal and the overflow range.
FloatZero == [neg |-> FALSE, m |-> <<>>, e |-> 0]

FloatOne == [neg |-> FALSE, m |-> Pow2(Precision - 1), e |-> 1 - Precision]

\* the significand m at the exponent e, renormalised when rounding carried into
\* bit Precision + 1
Carried(m, e) ==
    IF m = Pow2(Precision)
    THEN [neg |-> FALSE, m |-> Pow2(Precision - 1), e |-> e + 1]
    ELSE [neg |-> FALSE, m |-> m, e |-> e]

\* round to nearest, ties to even: whether the dropped bits `low` round up, given
\* half a unit of the last kept bit
RoundsUp(low, half, odd_or_sticky) == Less(half, low) \/ (low = half /\ odd_or_sticky)

\* Round for a q of Precision + drop bits whose leading Precision bits are `kept`
RoundKept(q, sticky, drop, kept) ==
    Carried(IF RoundsUp(Sub(q, ShiftLeft(kept, drop)), Pow2(drop - 1),
                        sticky \/ kept[1] % 2 = 1)
            THEN MulSmall(kept, 1, 1)
            ELSE kept,
            drop)

\* Round for a q of Precision + drop bits
RoundAt(q, sticky, drop) ==
    IF drop <= 0
    THEN [neg |-> FALSE, m |-> ShiftLeft(q, 0 - drop), e |-> drop]
    ELSE RoundKept(q, sticky, drop, ShiftRight(q, drop))

\* the double nearest to q + f, ties to even, where q > 0 is a natural number and
\* 0 <= f < 1 is zero unless `sticky`; q has more than Precision bits when sticky
Round(q, sticky) == RoundAt(q, sticky, BitLength(q) - Precision)

\* the double r with the sign `neg` and its exponent raised by e
Signed(r, neg, e) == [neg |-> neg, m |-> r.m, e |-> r.e + e]

\* Round applied to a quotient and its remainder
RoundDivMod(qr) == Round(qr[1], qr[2] # <<>>)

\* the double nearest to n / d, computed from the quotient of n * 2^s by d
QuotientAt(n, d, s) == Signed(RoundDivMod(DivMod(ShiftLeft(n, s), d)), FALSE, 0 - s)

\* the double nearest to n/d for natural numbers n > 0 and d > 0: the quotient is
\* computed to more than Precision bits and rounded
RoundedQuotient(n, d) == QuotientAt(n, d, Precision + 3 + BitLength(d) - BitLength(n))

\* a division by zero raises ZeroDivisionError: no value
ZeroDivisionError == CHOOSE x \in {} : TRUE

\* the float num/den of a fraction with num >= 0 and den > 0
float(num, den) ==
    IF num = 0 THEN FloatZero ELSE RoundedQuotient(Digits(num), Digits(den))

\* x * k for a float x and an integer 0 <= k < Base
float_mul(x, k) ==
    IF x.m = <<>> \/ k = 0 THEN FloatZero
    ELSE Signed(Round(Times(x.m, k), FALSE), x.neg, x.e)

\* one - m, both at the exponent e
Difference(one, m, e) ==
    IF one = m THEN FloatZero
    ELSE IF Less(m, one) THEN Signed(Round(Sub(one, m), FALSE), FALSE, e)
    ELSE Signed(Round(Sub(m, one), FALSE), TRUE, e)

\* 1 - x for a float x >= 0: both brought to the exponent of x when that is
\* negative, to the exponent 0 otherwise
float_one_minus(x) ==
    IF x.m = <<>> THEN FloatOne
    ELSE IF x.e < 0 THEN Difference(Pow2(0 - x.e), x.m, x.e)
    ELSE Difference(<<1>>, ShiftLeft(x.m, x.e), 0)

\* x / y for floats
float_div(x, y) ==
    IF y.m = <<>> THEN ZeroDivisionError
    ELSE IF x.m = <<>> THEN FloatZero
    ELSE Signed(RoundedQuotient(x.m, y.m), x.neg # y.neg, x.e - y.e)

\* the integer part of |x|
Magnitude(x) ==
    IF x.e >= 0 THEN ToInt(ShiftLeft(x.m, x.e)) ELSE ToInt(ShiftRight(x.m, 0 - x.e))

\* int(x): the integer part, truncated towards zero
int(x) == IF x.neg THEN 0 - Magnitude(x) ELSE Magnitude(x)

(* ------------------------------ sampling ------------------------------ *)
\* line 180: hp.get('min_less_portion', 0.5)
PortionOrDefault(portion) ==
    IF portion.present
    THEN portion
    ELSE [present |-> TRUE, num |-> 1, den |-> 2]

\* line 180: num_less > 0 and num_less / len(train_dataset) < portion. The two sides
\* are the doubles nearest to two fractions; fractions with denominators below 2^26
\* are equal or more than one rounding apart, so the doubles compare as they do.
NeedsOversampling(portion, num_less, num_majority) ==
    /\ num_less > 0
    /\ num_less * PortionOrDefault(portion).den
         < PortionOrDefault(portion).num * (num_less + num_majority)

\* line 181: hp['min_less_portion'] raises KeyError when the key is absent, and the
\* division raises ZeroDivisionError when the portion is 1
OversamplingRaises(portion, num_less, num_majority) ==
    /\ NeedsOversampling(portion, num_less, num_majority)
    /\ ~portion.present \/ portion.num = portion.den

\* line 181: int((p * num_majority) / (1 - p)) for the float p, the number of
\* minority samples the list is to have
minority_target(p, num_majority) ==
    int(float_div(float_mul(p, num_majority), float_one_minus(p)))

\* a variant of add_num that draws two indices fewer
add_num_short(portion, num_less, num_majority) ==
    minority_target(float(portion.num, portion.den), num_majority) - num_less - 2

\* line 181: int((portion * num_majority) / (1 - portion)) - num_less, in floats
add_num(portion, num_less, num_majority) ==
    minority_target(float(portion.num, portion.den), num_majority) - num_less

\* lines 182-184: the length of the list once add_num indices are appended to its n
Extended(n, extra) == IF extra > 0 THEN n + extra ELSE n

\* lines 179-184: len(base_indexes)
BaseIndexCount(portion, num_less, num_majority) ==
    IF NeedsOversampling(portion, num_less, num_majority)
    THEN Extended(num_less + num_majority, add_num(portion, num_less, num_majority))
    ELSE num_less + num_majority

\* line 186
batches_per_epoch(h, n) == n \div h.micro_batch_size

\* line 187
TotalTrainingSteps(h, n) ==
    h.n_epochs[1] * batches_per_epoch(h, n) + h.n_epochs[2] * batches_per_epoch(h, n)
      + h.n_epochs[3] * batches_per_epoch(h, n) + h.n_epochs[4] * batches_per_epoch(h, n)

(* -------------------------- parameter staging ------------------------- *)
ParamGroups == {"bert_model", "llama_base", "llama_lora", "projector", "classifier"}

\* the substrings that lines 87-89 look for in the names of a group's parameters
NameParts(g) ==
    CASE g = "bert_model" -> {"bert_model"}
      [] g = "llama_base" -> {"llama_model"}
      [] g = "llama_lora" -> {"llama_model", "lora_"}
      [] g = "projector"  -> {"projector"}
      [] OTHER            -> {"classifier"}

\* a variant of SetTrainable without the reset of line 86
SetTrainableKeepingPrior(prior, projector, classifier, llama_lora) ==
    prior \cup
    { g \in ParamGroups :
        IF "projector" \in NameParts(g) /\ projector THEN TRUE
        ELSE IF "classifier" \in NameParts(g) /\ classifier THEN TRUE
        ELSE {"llama_model", "lora_"} \subseteq NameParts(g) /\ llama_lora }

\* lines 84-89: the groups with requires_grad set, given the groups that had it set
\* before the call; line 86 clears every parameter first
SetTrainable(prior, projector, classifier, llama_lora) ==
    { g \in ParamGroups :
        IF "projector" \in NameParts(g) /\ projector THEN TRUE
        ELSE IF "classifier" \in NameParts(g) /\ classifier THEN TRUE
        ELSE {"llama_model", "lora_"} \subseteq NameParts(g) /\ llama_lora }

\* a variant of PhaseTrainable whose last mode trains the decoder adapters alone
PhaseTrainableAdaptersAlone(prior, k) ==
    CASE k = 1 -> SetTrainable(prior, TRUE, FALSE, FALSE)
      [] k = 2 -> SetTrainable(prior, FALSE, TRUE, FALSE)
      [] k = 3 -> SetTrainable(prior, TRUE, TRUE, FALSE)
      [] OTHER -> SetTrainable(prior, FALSE, FALSE, TRUE)

\* lines 91-94 and the order of training_phases, lines 192-197
PhaseTrainable(prior, k) ==
    CASE k = 1 -> SetTrainable(prior, TRUE, FALSE, FALSE)
      [] k = 2 -> SetTrainable(prior, FALSE, TRUE, FALSE)
      [] k = 3 -> SetTrainable(prior, TRUE, TRUE, FALSE)
      [] OTHER -> SetTrainable(prior, TRUE, TRUE, TRUE)

\* the record of one activation of a mode
Activation(prior, k) ==
    [ mode |-> k, before |-> prior, after |-> PhaseTrainable(prior, k) ]

(* ------------------------------ initial ------------------------------- *)
\* __init__, lines 19-28, and the locals of run() before their assignment
InitSelf ==
    [ run_id |-> "None", visualizer |-> FALSE, model |-> FALSE, datasets |-> FALSE,
      global_step_count |-> 0, total_training_steps |-> 0, batch_losses |-> 0 ]

InitLoc ==
    [ final_status |-> "unset", base_len |-> 0, n_empty |-> 0, n_test |-> 0,
      phase |-> 0, all_phases_completed |-> FALSE, pending |-> FALSE,
      eval_i |-> 0 ]

InitTp ==
    [ epoch |-> 0, i_th |-> 0, empty_left |-> 0, accum |-> 0,
      opt_steps |-> 0, last_step_accum |-> 0 ]

InitObs ==
    [ monitor_starts |-> 0, monitor_stops |-> 0, steps_at_stop |-> 0, evals_at_stop |-> 0,
      status_events |-> 0, prog_num |-> 0, prog_den |-> 1,
      stop_step |-> 0, stop_phase |-> 0, phases_started |-> 0,
      stepped_phases |-> {}, status_phases |-> {}, activated |-> <<>>,
      evaluated |-> FALSE, eval_batches |-> 0,
      metrics_called |-> FALSE, metrics_saved |-> FALSE,
      model_called |-> FALSE, model_saved |-> FALSE,
      caught |-> 0, error_events |-> 0, raised_in_try |-> FALSE,
      record_status |-> "unset", cleanups |-> 0,
      done_events |-> 0, done_status |-> "unset", ret |-> "unset" ]

NoFwd == [ stage |-> "idle" ]

NoSmp == [ stage |-> "idle" ]

NoFt == [ stage |-> "idle" ]

Init ==
    /\ pc = "start"
    /\ hp \in Hyperparameters
    /\ self = InitSelf
    /\ loc = InitLoc
    /\ tp = InitTp
    /\ trainable = {}
    /\ obs = InitObs
    /\ fwd = NoFwd
    /\ smp = NoSmp
    /\ ft = NoFt

(* ------------------------ run(): setup, 166-190 ----------------------- *)
\* what lines 167-168 can do: ResourceMonitor() raising, monitor.start() raising,
\* or neither
MonitorOutcomes == {"ctor_raises", "start_raises", "ok"}

\* lines 167-169: the monitor is created and started, final_status = 'FAILED'.
\* These lines precede the try block: an exception of theirs leaves run() at once,
\* with no handler, no monitor.stop(), no _cleanup and no done event.
MonitorStart ==
    /\ pc = "start"
    /\ \E o \in MonitorOutcomes :
         IF o = "ok"
         THEN /\ obs' = [obs EXCEPT !.monitor_starts = @ + 1]
              /\ loc' = [loc EXCEPT !.final_status = "FAILED"]
              /\ pc' = "init"
         ELSE /\ pc' = "raised"
              /\ UNCHANGED <<obs, loc>>
    /\ UNCHANGED <<hp, self, tp, trainable, fwd, smp, ft>>

\* what create_new_run and the rest of _initialize_run can do: create_new_run
\* raises, returns None, returns a value that is falsy without being None ('' or 0),
\* or returns an id, after which lines 37-40 raise or do not
InitOutcomes == {"create_raises", "None", "falsy", "id_then_raise", "id"}

\* lines 36 and 224: `if self.run_id`
Truthy(run_id) == run_id \notin {"None", "falsy"}

\* line 41: `return self.run_id is not None`
InitializeRunResult(run_id) == run_id # "None"

\* lines 34-41 and 172-173; lines 37-40 run for a truthy id only
InitializeRun ==
    /\ pc = "init"
    /\ \E o \in InitOutcomes :
         LET rid == CASE o \in {"create_raises", "None"} -> "None"
                      [] o = "falsy" -> "falsy"
                      [] OTHER -> "id"
             proceeds == o \in {"falsy", "id"} /\ InitializeRunResult(rid)
         IN /\ self' = [self EXCEPT !.run_id = rid,
                                    !.visualizer = (Truthy(rid) /\ o = "id")]
            /\ pc' = IF proceeds THEN "load" ELSE "except"
            /\ obs' = [obs EXCEPT !.raised_in_try = ~proceeds]
    /\ UNCHANGED <<hp, loc, tp, trainable, fwd, smp, ft>>

\* what lines 175-188 can meet: LogDataset(train.csv) raising (line 176), a later
\* statement of lines 177-184 raising, the callback raising on the log of line 188,
\* or none of them
LoadOutcomes == {"train_raises", "raises", "total_log_raises", "ok"}

\* lines 175-188: datasets, oversampled index list, total_training_steps;
\* self.datasets says that self.train_dataset has been assigned
LoadDatasets ==
    /\ pc = "load"
    /\ \E num_less \in 0..MaxLess, num_majority \in 0..MaxMajor, portion \in PortionChoices :
         /\ num_less <= num_majority
         /\ \E key_error \in {OversamplingRaises(portion, num_less, num_majority)},
               n_empty \in 0..MaxEmpty, o \in LoadOutcomes :
              \E n \in {IF key_error THEN 0
                        ELSE BaseIndexCount(portion, num_less, num_majority)} :
                 IF o = "ok" /\ ~key_error
                 THEN /\ n_empty <= n
                      /\ TrainingIterations(hp, n) <= MaxSteps
                      /\ self' = [self EXCEPT !.datasets = TRUE,
                                              !.total_training_steps = TotalTrainingSteps(hp, n)]
                      /\ loc' = [loc EXCEPT !.base_len = n, !.n_empty = n_empty]
                      /\ pc' = "build"
                      /\ obs' = obs
                 ELSE /\ n_empty = 0
                      /\ self' = [self EXCEPT
                                    !.datasets = (o # "train_raises"),
                                    !.total_training_steps =
                                        IF o = "total_log_raises" /\ ~key_error
                                        THEN TotalTrainingSteps(hp, n) ELSE @]
                      /\ loc' = loc
                      /\ pc' = "except"
                      /\ obs' = [obs EXCEPT !.raised_in_try = TRUE]
    /\ UNCHANGED <<hp, tp, trainable, fwd, smp, ft>>

\* what lines 190-197 can meet: the constructor of line 190 raising, a key of lines
\* 193-196 missing from the hyperparameters, or neither
BuildOutcomes == {"ctor_raises", "phases_raise", "ok"}

\* requires_grad as the constructors of line 190 leave it
ConstructedTrainable == {"bert_model", "llama_lora", "projector", "classifier"}

\* lines 190-199: a freshly built model and the list of the phases; a KeyError of
\* lines 193-196 comes after self.model has been assigned
BuildModel ==
    /\ pc = "build"
    /\ \E o \in BuildOutcomes :
         IF o = "ok"
         THEN /\ self' = [self EXCEPT !.model = TRUE]
              /\ trainable' = ConstructedTrainable
              /\ loc' = [loc EXCEPT !.phase = 1, !.all_phases_completed = TRUE]
              /\ pc' = "phase"
              /\ obs' = obs
         ELSE /\ self' = [self EXCEPT !.model = (o = "phases_raise")]
              /\ trainable' = IF o = "phases_raise" THEN ConstructedTrainable ELSE trainable
              /\ loc' = loc
              /\ pc' = "except"
              /\ obs' = [obs EXCEPT !.raised_in_try = TRUE]
    /\ UNCHANGED <<hp, tp, fwd, smp, ft>>

(* -------------------- run(): the phase loop, 199-207 ------------------ *)
\* a variant of RunsEvaluation that evaluates and persists after a cancellation too
RunsEvaluationAlways(all_phases_completed) == TRUE

\* line 207: `if all_phases_completed`
RunsEvaluation(all_phases_completed) == all_phases_completed

\* lines 200-207: where run() continues when _train_phase returns `result`
AfterPhase(result) ==
    IF result
    THEN IF loc.phase < 4
         THEN /\ loc' = [loc EXCEPT !.phase = @ + 1]
              /\ pc' = "phase"
         ELSE /\ loc' = loc
              /\ pc' = IF RunsEvaluation(loc.all_phases_completed) THEN "eval" ELSE "finally"
    ELSE /\ loc' = [loc EXCEPT !.all_phases_completed = FALSE, !.final_status = "ABORTED"]
         /\ pc' = IF RunsEvaluation(FALSE) THEN "eval" ELSE "finally"

\* line 53: `if not n_epochs > 0: return True`
PhaseSkipped(n_epochs) == ~(n_epochs > 0)

\* line 201 (setup_func) and _train_phase up to its epoch loop, lines 52-73
StartPhase ==
    /\ pc = "phase"
    /\ \E ok \in BOOLEAN :
         LET started == [obs EXCEPT !.phases_started = @ + 1,
                                    !.activated = Append(@, Activation(trainable, loc.phase))]
         IN /\ trainable' = PhaseTrainable(trainable, loc.phase)
            /\ IF PhaseSkipped(hp.n_epochs[loc.phase]) \/ trainable' = {}
               THEN /\ ok
                    /\ AfterPhase(TRUE)
                    /\ obs' = started
                    /\ tp' = tp
               ELSE IF ok
               THEN /\ pc' = "epoch"
                    /\ tp' = [tp EXCEPT !.epoch = 0]
                    /\ obs' = started
                    /\ loc' = loc
               ELSE /\ pc' = "except"
                    /\ obs' = [started EXCEPT !.raised_in_try = TRUE]
                    /\ UNCHANGED <<tp, loc>>
    /\ UNCHANGED <<hp, self, fwd, smp, ft>>

\* lines 75-79: epoch label, shuffle, optimizer.zero_grad()
BeginEpoch ==
    /\ pc = "epoch"
    /\ tp.epoch < hp.n_epochs[loc.phase]
    /\ \E ok \in BOOLEAN :
         IF ok
         THEN /\ tp' = [tp EXCEPT !.i_th = 0, !.empty_left = loc.n_empty, !.accum = 0,
                                  !.opt_steps = 0, !.last_step_accum = 0]
              /\ pc' = "mb"
              /\ obs' = obs
         ELSE /\ tp' = InitTp
              /\ pc' = "except"
              /\ obs' = [obs EXCEPT !.raised_in_try = TRUE]
    /\ UNCHANGED <<hp, self, loc, trainable, fwd, smp, ft>>

\* lines 111-114: the epoch loop is exhausted; gc.collect() and
\* torch.cuda.empty_cache() run inside the try block of run() and may raise,
\* otherwise _train_phase returns True
EndPhase ==
    /\ pc = "epoch"
    /\ ~(tp.epoch < hp.n_epochs[loc.phase])
    /\ \E ok \in BOOLEAN :
         IF ok
         THEN /\ AfterPhase(TRUE)
              /\ obs' = obs
         ELSE /\ loc' = loc
              /\ pc' = "except"
              /\ obs' = [obs EXCEPT !.raised_in_try = TRUE]
    /\ tp' = InitTp
    /\ UNCHANGED <<hp, self, trainable, fwd, smp, ft>>

\* line 80: range(0, len(indexes_for_phase), micro_batch_size)
start_idx(i_th) == i_th * hp.micro_batch_size

\* line 82
end_idx(i_th) ==
    IF start_idx(i_th) + hp.micro_batch_size < loc.base_len
    THEN start_idx(i_th) + hp.micro_batch_size
    ELSE loc.base_len

\* line 80: the inner loop is exhausted
EndEpoch ==
    /\ pc = "mb"
    /\ ~(start_idx(tp.i_th) < loc.base_len)
    /\ tp' = [tp EXCEPT !.epoch = @ + 1]
    /\ pc' = "epoch"
    /\ UNCHANGED <<hp, self, loc, trainable, obs, fwd, smp, ft>>

\* what one iteration of the inner loop can meet: get_batch/train_helper raising,
\* the status callback's return value, the callback raising, and the callback
\* raising on the "Stop request received" log event that follows a STOP
MicroBatchOutcomes == {"raise_early", "CONTINUE", "STOP", "STOP_log_raises", "raise"}

\* a variant of StopRequested that ignores the callback's answer
StopNeverRequested(o) == FALSE

\* line 108: `self.callback(status) == 'STOP'`
StopRequested(o) == o \in {"STOP", "STOP_log_raises"}

\* line 95: `(i_th + 1) % grad_accum_steps == 0`
StepsOptimizer(i_th) == (i_th + 1) % grad_accum_steps(hp) = 0

\* line 105: progress as a fraction <<numerator, denominator>>
Progress(step_count, total) == IF total > 0 THEN <<step_count, total>> ELSE <<0, 1>>

\* lines 80-110: one iteration of the micro-batch loop; `empties` of the samples
\* of the slice have an empty log list, and the slice is degenerate when all do
MicroBatch ==
    /\ pc = "mb"
    /\ start_idx(tp.i_th) < loc.base_len
    /\ \E empties \in 0..MaxEmpty, o \in MicroBatchOutcomes :
         LET size == end_idx(tp.i_th) - start_idx(tp.i_th)
             \* line 81 has run in this phase
             counted == [obs EXCEPT !.stepped_phases = @ \cup {loc.phase}]
             others_left == (loc.base_len - start_idx(tp.i_th)) - tp.empty_left
             degenerate == size = 0 \/ empties = size
             steps == StepsOptimizer(tp.i_th)
             count == self.global_step_count + 1
             p == Progress(count, self.total_training_steps)
             \* lines 93-100: backward, and the optimizer step when it is due
             stepped == [tp EXCEPT !.i_th = @ + 1, !.empty_left = @ - empties,
                                   !.accum = IF steps THEN 0 ELSE @ + 1,
                                   !.opt_steps = IF steps THEN @ + 1 ELSE @,
                                   !.last_step_accum = IF steps THEN tp.accum + 1 ELSE @]
             returned_stop == o \in {"STOP", "STOP_log_raises"}
             \* the status event of line 107 and what the callback answered
             seen == [counted EXCEPT !.status_events = @ + 1,
                                 !.status_phases = @ \cup {loc.phase},
                                 !.prog_num = p[1], !.prog_den = p[2],
                                 !.stop_step = IF returned_stop /\ @ = 0 THEN count ELSE @,
                                 !.stop_phase = IF returned_stop /\ obs.stop_step = 0
                                                THEN obs.phases_started ELSE @]
         IN /\ empties <= size /\ empties <= tp.empty_left /\ size - empties <= others_left
            /\ IF o = "raise_early"
               THEN /\ self' = [self EXCEPT !.global_step_count = count]
                    /\ pc' = "except"
                    /\ obs' = [counted EXCEPT !.raised_in_try = TRUE]
                    /\ tp' = InitTp
                    /\ loc' = loc
               ELSE IF degenerate
               THEN /\ o = "CONTINUE"
                    /\ self' = [self EXCEPT !.global_step_count = count]
                    /\ tp' = [tp EXCEPT !.i_th = @ + 1, !.empty_left = @ - empties]
                    /\ pc' = "mb"
                    /\ obs' = counted
                    /\ loc' = loc
               ELSE /\ self' = [self EXCEPT !.global_step_count = count,
                                            !.batch_losses = @ + 1]
                    /\ IF o = "raise" \/ (StopRequested(o) /\ o = "STOP_log_raises")
                       THEN /\ obs' = [seen EXCEPT !.raised_in_try = TRUE]
                            /\ pc' = "except"
                            /\ tp' = InitTp
                            /\ loc' = loc
                       ELSE IF StopRequested(o)
                       THEN /\ obs' = seen
                            /\ tp' = InitTp
                            /\ AfterPhase(FALSE)
                       ELSE /\ obs' = seen
                            /\ pc' = "mb"
                            /\ tp' = stepped
                            /\ loc' = loc
    /\ UNCHANGED <<hp, trainable, fwd, smp, ft>>

(* ------------- run(): evaluation and persistence, 207-214 ------------- *)
\* lines 117-125: the head of _evaluate; total_items = len(self.test_dataset), which
\* may be 0
EvalStart ==
    /\ pc = "eval"
    /\ \E n_test \in 0..MaxTest, ok \in BOOLEAN :
         /\ obs' = [obs EXCEPT !.evaluated = TRUE, !.raised_in_try = ~ok]
         /\ pc' = IF ok THEN "evalloop" ELSE "except"
         /\ loc' = [loc EXCEPT !.n_test = IF ok THEN n_test ELSE @]
         /\ ok \/ n_test = 0
    /\ UNCHANGED <<hp, self, tp, trainable, fwd, smp, ft>>

\* lines 127-136: one evaluation batch; the callback's return value is not read
EvalBatch ==
    /\ pc = "evalloop"
    /\ loc.eval_i < loc.n_test
    /\ \E ok \in BOOLEAN :
         IF ok
         THEN /\ loc' = [loc EXCEPT !.eval_i = @ + batch_size(hp)]
              /\ obs' = [obs EXCEPT !.eval_batches = @ + 1]
              /\ pc' = "evalloop"
         ELSE /\ loc' = [loc EXCEPT !.eval_i = 0, !.n_test = 0]
              /\ obs' = [obs EXCEPT !.eval_batches = @ + 1, !.raised_in_try = TRUE]
              /\ pc' = "except"
    /\ UNCHANGED <<hp, self, tp, trainable, fwd, smp, ft>>

\* lines 138-164: metrics and plots; the plots need self.visualizer
EvalFinish ==
    /\ pc = "evalloop"
    /\ ~(loc.eval_i < loc.n_test)
    /\ \E ok \in BOOLEAN :
         IF ok /\ self.visualizer
         THEN /\ pc' = "save_metrics"
              /\ obs' = obs
         ELSE /\ pc' = "except"
              /\ obs' = [obs EXCEPT !.raised_in_try = TRUE]
    /\ loc' = [loc EXCEPT !.eval_i = 0, !.n_test = 0]
    /\ UNCHANGED <<hp, self, tp, trainable, fwd, smp, ft>>

\* lines 209-210: db.save_performance_metrics
SaveMetrics ==
    /\ pc = "save_metrics"
    /\ \E ok \in BOOLEAN :
         /\ obs' = [obs EXCEPT !.metrics_called = TRUE, !.metrics_saved = ok,
                               !.raised_in_try = ~ok]
         /\ pc' = IF ok THEN "save_model" ELSE "except"
    /\ UNCHANGED <<hp, self, loc, tp, trainable, fwd, smp, ft>>

\* lines 212-214: model.save_ft_model, then final_status = 'COMPLETED'
SaveModel ==
    /\ pc = "save_model"
    /\ \E ok \in BOOLEAN :
         /\ obs' = [obs EXCEPT !.model_called = TRUE, !.model_saved = ok,
                               !.raised_in_try = ~ok]
         /\ IF ok
            THEN /\ loc' = [loc EXCEPT !.final_status = "COMPLETED"]
                 /\ pc' = "finally"
            ELSE /\ loc' = loc
                 /\ pc' = "except"
    /\ UNCHANGED <<hp, self, tp, trainable, fwd, smp, ft>>

(* ------------------ run(): except and finally, 216-232 ---------------- *)
\* what line 216 and the handler can meet: the exception in flight is not an
\* Exception (KeyboardInterrupt, SystemExit), which any statement of the try block
\* can raise, so that the clause does not match and lines 217-220 are skipped; or
\* the handler is entered and the callback raises on its log, on its error event,
\* or on neither
HandlerOutcomes == {"not_an_exception", "log_raises", "error_raises", "ok"}

\* line 216: `except Exception as e`
HandlerEntered(o) == o # "not_an_exception"

\* lines 216-220; an exception that is not handled, or one raised by the handler,
\* stays pending through the finally block and leaves run() after it
Except ==
    /\ pc = "except"
    /\ \E o \in HandlerOutcomes :
         IF HandlerEntered(o)
         THEN /\ obs' = [obs EXCEPT !.caught = @ + 1,
                                    !.error_events = IF o = "log_raises" THEN @ ELSE @ + 1]
              /\ loc' = IF o = "ok"
                        THEN [loc EXCEPT !.final_status = "FAILED"]
                        ELSE [loc EXCEPT !.pending = TRUE]
         ELSE /\ obs' = obs
              /\ loc' = [loc EXCEPT !.pending = TRUE]
    /\ pc' = "finally"
    /\ UNCHANGED <<hp, self, tp, trainable, fwd, smp, ft>>

\* monitor.stop raising; save_resource_metrics, plot_resource_usage or
\* update_run_status raising; the closing log raising; or none of them
RecordOutcomes == {"stop_raises", "raise_before_update", "log_raises", "ok"}

\* line 223: monitor.stop(), the first statement of the finally block; the number
\* of times it has been called
monitor_stop(stopped) == stopped + 1

\* a variant of RecordedStatus that writes FAILED whatever the outcome
RecordedStatusFailed(final_status) == "FAILED"

\* line 228: the status handed to update_run_status
RecordedStatus(final_status) == final_status

\* lines 222-229: the finally block up to the call of _cleanup
Record ==
    /\ pc = "finally"
    /\ \E o \in RecordOutcomes :
         LET stopped == [obs EXCEPT !.monitor_stops = monitor_stop(@),
                                    !.steps_at_stop = self.global_step_count,
                                    !.evals_at_stop = obs.eval_batches]
         IN IF o = "stop_raises"
            THEN /\ obs' = stopped
                 /\ pc' = "raised"
            ELSE IF Truthy(self.run_id)
            THEN /\ obs' = [stopped EXCEPT !.record_status =
                                              IF o \in {"log_raises", "ok"}
                                              THEN RecordedStatus(loc.final_status) ELSE @]
                 /\ pc' = IF o = "ok" THEN "cleanup" ELSE "raised"
            ELSE /\ o = "ok"
                 /\ obs' = stopped
                 /\ pc' = "cleanup"
    /\ UNCHANGED <<hp, self, loc, tp, trainable, fwd, smp, ft>>

\* the log before the release raising, the log after it raising, or neither
CleanupOutcomes == {"first_log_raises", "last_log_raises", "ok"}

\* lines 43-50, called from line 231
Cleanup ==
    /\ pc = "cleanup"
    /\ \E o \in CleanupOutcomes :
         IF o = "first_log_raises"
         THEN /\ pc' = "raised"
              /\ UNCHANGED <<self, obs>>
         ELSE /\ self' = [self EXCEPT !.model = FALSE, !.datasets = FALSE,
                                      !.visualizer = FALSE]
              /\ obs' = [obs EXCEPT !.cleanups = @ + 1]
              /\ pc' = IF o = "ok" THEN "done_event" ELSE "raised"
    /\ UNCHANGED <<hp, loc, tp, trainable, fwd, smp, ft>>

\* a variant of DoneStatus that always reports success
DoneStatusCompleted(final_status) == "COMPLETED"

\* line 232: the status field of the done event
DoneStatus(final_status) == final_status

\* lines 166-232: run() has no return statement, so a normal exit returns None
ReturnValue(final_status) == "None"

\* line 232, and the return of run(): the function has no return statement
DoneEvent ==
    /\ pc = "done_event"
    /\ \E ok \in BOOLEAN :
         /\ obs' = [obs EXCEPT !.done_events = @ + 1,
                               !.done_status = DoneStatus(loc.final_status),
                               !.ret = IF ok /\ ~loc.pending
                                       THEN ReturnValue(loc.final_status) ELSE @]
         /\ pc' = IF ok /\ ~loc.pending THEN "returned" ELSE "raised"
    /\ UNCHANGED <<hp, self, loc, tp, trainable, fwd, smp, ft>>

Next ==
    \/ MonitorStart
    \/ InitializeRun
    \/ LoadDatasets
    \/ BuildModel
    \/ StartPhase
    \/ BeginEpoch
    \/ EndPhase
    \/ EndEpoch
    \/ MicroBatch
    \/ EvalStart
    \/ EvalBatch
    \/ EvalFinish
    \/ SaveMetrics
    \/ SaveModel
    \/ Except
    \/ Record
    \/ Cleanup
    \/ DoneEvent

Spec == Init /\ [][Next]_vars

\* run() under hyperparameters whose epoch counts may be negative
InitSigned ==
    /\ pc = "start"
    /\ hp \in SignedHyperparameters
    /\ self = InitSelf
    /\ loc = InitLoc
    /\ tp = InitTp
    /\ trainable = {}
    /\ obs = InitObs
    /\ fwd = NoFwd
    /\ smp = NoSmp
    /\ ft = NoFt

SpecSigned == InitSigned /\ [][Next]_vars

(* ============ LogSentinelModel: sequences -> logits, 96-149 ============ *)
\* A log line is the token "L", an instruction-prefix embedding the token "I" and a
\* padding row the token "P": the pipeline's bookkeeping depends on how many rows
\* of each kind there are and where they sit, not on their numeric content.
Min(a, b) == IF a < b THEN a ELSE b

RECURSIVE SumSeq(_)
SumSeq(q) == IF q = <<>> THEN 0 ELSE q[1] + SumSeq(Tail(q))

\* line 43: the tokenized instruction, InstrLen embedding rows
InstrLen == 2
instruc_embeds == [k \in 1..InstrLen |-> "I"]

\* line 97: s[:self.max_seq_len]
Truncate(sequences_, max_seq_len) ==
    [i \in 1..Len(sequences_) |->
        SubSeq(sequences_[i], 1, Min(Len(sequences_[i]), max_seq_len))]

\* utils.helpers.merge_data: all lines in one list, and each sample's start offset
RECURSIVE merge_data(_)
merge_data(sequences) ==
    IF sequences = <<>>
    THEN [merged_logs |-> <<>>, start_positions |-> <<>>]
    ELSE LET rest == merge_data(Tail(sequences))
             n == Len(sequences[1])
         IN [merged_logs |-> sequences[1] \o rest.merged_logs,
             start_positions |->
                 <<0>> \o [k \in 1..Len(rest.start_positions) |->
                              rest.start_positions[k] + n]]

\* lines 104-116: encoder and projector, one output row per merged line
Project(merged_logs) == merged_logs

\* torch.tensor_split(t, indices): t[0:i1], t[i1:i2], ..., t[ik:]
tensor_split(t, indices) ==
    [k \in 1..(Len(indices) + 1) |->
        SubSeq(t,
               (IF k = 1 THEN 0 ELSE indices[k - 1]) + 1,
               IF k = Len(indices) + 1 THEN Len(t) ELSE indices[k])]

\* lines 96-120; none stands for the (None, None) result
get_cls_embeddings(sequences_, max_seq_len) ==
    LET m == merge_data(Truncate(sequences_, max_seq_len))
        projected_outputs == Project(m.merged_logs)
        split_indices == Tail(m.start_positions)
    IN IF m.merged_logs = <<>>
       THEN [none |-> TRUE, seq_embeddings |-> <<>>]
       ELSE IF Len(projected_outputs) = 0
       THEN [none |-> FALSE, seq_embeddings |-> <<>>]
       ELSE IF split_indices = <<>>
       THEN [none |-> FALSE, seq_embeddings |-> <<projected_outputs>>]
       ELSE [none |-> FALSE,
             seq_embeddings |-> tensor_split(projected_outputs, split_indices)]

\* lines 126-129: the original (0-based) indices of the samples that are kept
RECURSIVE KeptIndices(_, _)
KeptIndices(seq_embeddings, i) ==
    IF i > Len(seq_embeddings)
    THEN <<>>
    ELSE (IF Len(seq_embeddings[i]) > 0 THEN <<i - 1>> ELSE <<>>)
             \o KeptIndices(seq_embeddings, i + 1)

\* utils.helpers.stack_and_pad_left: pad at the left to the longest sequence, with
\* the attention mask 0 on the padding and 1 on the embeddings
stack_and_pad_left(valid_embeddings) ==
    LET lens == {Len(valid_embeddings[j]) : j \in 1..Len(valid_embeddings)}
        padded_length == CHOOSE n \in lens : \A x \in lens : x <= n
    IN [inputs_embeds |->
            [j \in 1..Len(valid_embeddings) |->
                [k \in 1..(padded_length - Len(valid_embeddings[j])) |-> "P"]
                    \o valid_embeddings[j]],
        attention_mask |->
            [j \in 1..Len(valid_embeddings) |->
                [k \in 1..padded_length |->
                    IF k <= padded_length - Len(valid_embeddings[j]) THEN 0 ELSE 1]]]

\* line 132: the causal decoder; the hidden state of a row at (0-based) column c
\* is determined by the unmasked embeddings of that row at columns 0..c
HiddenState(row, mask, c) ==
    LET keep(k) == mask[k] = 1
        RECURSIVE Seen(_)
        Seen(k) == IF k > c + 1 \/ k > Len(row) THEN <<>>
                   ELSE (IF keep(k) THEN <<row[k]>> ELSE <<>>) \o Seen(k + 1)
    IN Seen(1)

\* lines 41, 138: the classifier head, a fixed function of the hidden state to two
\* logits; contexts of different sizes get different rows, and both classes occur
classifier(hidden) ==
    <<Len(hidden), IF Len(hidden) % 2 = 0 THEN Len(hidden) + 1 ELSE Len(hidden) - 1>>

\* line 136: attention_mask.sum(dim=1) - 1
sequence_lengths(attention_mask) ==
    [j \in 1..Len(attention_mask) |-> SumSeq(attention_mask[j]) - 1]

\* lines 122-139
get_logits(sequences_, max_seq_len) ==
    LET e == get_cls_embeddings(sequences_, max_seq_len)
        original_indices == KeptIndices(e.seq_embeddings, 1)
        valid_embeddings ==
            [j \in 1..Len(original_indices) |->
                instruc_embeds \o e.seq_embeddings[original_indices[j] + 1]]
        padded == stack_and_pad_left(valid_embeddings)
        lengths == sequence_lengths(padded.attention_mask)
    IN IF e.none \/ original_indices = <<>>
       THEN [none |-> TRUE, logits |-> <<>>, original_indices |-> <<>>,
             sequence_lengths |-> <<>>, padded_length |-> 0]
       ELSE [none |-> FALSE,
             logits |-> [j \in 1..Len(original_indices) |->
                            classifier(HiddenState(padded.inputs_embeds[j],
                                                   padded.attention_mask[j],
                                                   lengths[j]))],
             original_indices |-> original_indices,
             sequence_lengths |-> lengths,
             padded_length |-> Len(padded.attention_mask[1])]

\* lines 146-147: -float('inf'), below every logit the classifier produces
NegInf == 0 - 1000
Sentinel == <<NegInf, NegInf>>

\* a variant of forward that writes the surviving rows to the first rows of the
\* output instead of to their original indices
forward_unindexed(sequences_, max_seq_len) ==
    LET g == get_logits(sequences_, max_seq_len)
    IN [i \in 1..Len(sequences_) |->
           IF i <= Len(g.logits) THEN g.logits[i] ELSE Sentinel]

\* lines 141-149
forward(sequences_, max_seq_len) ==
    LET g == get_logits(sequences_, max_seq_len)
    IN IF g.none
       THEN [i \in 1..Len(sequences_) |-> Sentinel]
       ELSE [i \in 1..Len(sequences_) |->
               IF \E j \in 1..Len(g.original_indices) : g.original_indices[j] = i - 1
               THEN g.logits[CHOOSE j \in 1..Len(g.original_indices) :
                                g.original_indices[j] = i - 1]
               ELSE Sentinel]

(* ------------------------- _evaluate, 116-164 ------------------------- *)
\* line 136: torch.argmax(logits, dim=-1), the first index of the largest entry
argmax(row) == IF row[2] > row[1] THEN 1 ELSE 0

\* line 139: np.array(all_preds) != -1, as the set of (1-based) positions kept
valid_indices(all_preds) == {i \in 1..Len(all_preds) : all_preds[i] # -1}

\* line 155: confusion_matrix(gt_numeric, preds_numeric, labels=[0, 1])
confusion_matrix(gt_labels, all_preds, valid) ==
    [t \in 0..1 |-> [q \in 0..1 |->
        Cardinality({i \in valid : gt_labels[i] = t /\ all_preds[i] = q})]]

Samples == UNION {[1..n -> {"L"}] : n \in 0..MaxLines}

TestSets ==
    UNION {[1..n -> [lines : Samples, label : 0..1]] : n \in 1..MaxBatch}

\* the test set, the model's max_seq_len and the evaluation batch size are drawn;
\* the controller is not running
InitFwd ==
    /\ pc = "model"
    /\ hp \in {h \in Hyperparameters : \A k \in 1..4 : h.n_epochs[k] = 0}
    /\ self = InitSelf
    /\ loc = InitLoc
    /\ tp = InitTp
    /\ trainable = {}
    /\ obs = InitObs
    /\ smp = NoSmp
    /\ ft = NoFt
    /\ \E test \in TestSets, max_seq_len \in 1..MaxSeqLen :
         fwd = [ stage |-> "eval", test_dataset |-> test, max_seq_len |-> max_seq_len,
                 i |-> 0, all_preds |-> <<>>, all_logits |-> <<>>,
                 last_seqs |-> <<>>, last_logits |-> <<>>,
                 last_lengths |-> <<>>, last_padded_length |-> 0,
                 valid |-> {}, confusion |-> <<>> ]

\* lines 127-136: one batch of the evaluation loop through forward
FwdEvalBatch ==
    /\ pc = "model"
    /\ fwd.stage = "eval"
    /\ fwd.i < Len(fwd.test_dataset)
    /\ LET last == Min(fwd.i + batch_size(hp), Len(fwd.test_dataset))
           seqs == [k \in 1..(last - fwd.i) |-> fwd.test_dataset[fwd.i + k].lines]
           logits == forward(seqs, fwd.max_seq_len)
           \* what _get_logits computed inside this call of forward
           g == get_logits(seqs, fwd.max_seq_len)
       IN fwd' = [fwd EXCEPT !.i = @ + batch_size(hp),
                             !.all_preds = @ \o [k \in 1..Len(logits) |-> argmax(logits[k])],
                             !.all_logits = @ \o logits,
                             !.last_seqs = seqs,
                             !.last_logits = logits,
                             !.last_lengths = g.sequence_lengths,
                             !.last_padded_length = g.padded_length]
    /\ UNCHANGED <<pc, hp, self, loc, tp, trainable, obs, smp, ft>>

\* lines 139-155: the filter on the predictions and the confusion matrix
FwdScore ==
    /\ pc = "model"
    /\ fwd.stage = "eval"
    /\ ~(fwd.i < Len(fwd.test_dataset))
    /\ LET gt_labels == [k \in 1..Len(fwd.test_dataset) |-> fwd.test_dataset[k].label]
           valid == valid_indices(fwd.all_preds)
       IN fwd' = [fwd EXCEPT !.stage = "scored",
                             !.valid = valid,
                             !.confusion = confusion_matrix(gt_labels, fwd.all_preds, valid)]
    /\ UNCHANGED <<pc, hp, self, loc, tp, trainable, obs, smp, ft>>

NextFwd == FwdEvalBatch \/ FwdScore

SpecFwd == InitFwd /\ [][NextFwd]_vars

(* ================== train_helper, lines 151-157 ======================== *)
\* the string labels of the training set
LabelStrings == {"normal", "anomalous", "unlabelled"}

\* line 156: 1 if lbl == 'anomalous' else 0
integer_label(lbl) == IF lbl = "anomalous" THEN 1 ELSE 0

\* a variant of train_helper that takes the labels by position in the batch
train_helper_positional(sequences_, labels, max_seq_len) ==
    LET g == get_logits(sequences_, max_seq_len)
    IN IF g.none
       THEN [logits |-> <<>>, integer_labels |-> <<>>]
       ELSE [logits |-> g.logits,
             integer_labels |->
                 [j \in 1..Len(g.original_indices) |-> integer_label(labels[j])]]

\* lines 151-157; the pair of empty tensors of line 154 has zero rows
train_helper(sequences_, labels, max_seq_len) ==
    LET g == get_logits(sequences_, max_seq_len)
    IN IF g.none
       THEN [logits |-> <<>>, integer_labels |-> <<>>]
       ELSE [logits |-> g.logits,
             integer_labels |->
                 [j \in 1..Len(g.original_indices) |->
                     integer_label(labels[g.original_indices[j] + 1])]]

\* training_controller.py line 89: `if logits.shape[0] == 0: continue`
SkipsBatch(logits) == Len(logits) = 0

TrainBatches ==
    UNION {[1..n -> [lines : Samples, label : LabelStrings]] : n \in 1..MaxBatch}

\* a micro-batch as get_batch returns it, and the model's max_seq_len, are drawn
InitTrainHelper ==
    /\ pc = "train_helper"
    /\ hp \in {h \in Hyperparameters :
                 /\ h.micro_batch_size = 1 /\ h.accum = 1
                 /\ \A k \in 1..4 : h.n_epochs[k] = 0}
    /\ self = InitSelf
    /\ loc = InitLoc
    /\ tp = InitTp
    /\ trainable = {}
    /\ obs = InitObs
    /\ smp = NoSmp
    /\ ft = NoFt
    /\ \E batch \in TrainBatches, max_seq_len \in 1..MaxSeqLen :
         fwd = [ stage |-> "batch", max_seq_len |-> max_seq_len,
                 last_seqs |-> [k \in 1..Len(batch) |-> batch[k].lines],
                 labels |-> [k \in 1..Len(batch) |-> batch[k].label],
                 logits |-> <<>>, integer_labels |-> <<>>, skipped |-> FALSE ]

\* training_controller.py lines 88-90: the call of train_helper and the test on
\* its result
TrainHelperCall ==
    /\ pc = "train_helper"
    /\ fwd.stage = "batch"
    /\ LET r == train_helper(fwd.last_seqs, fwd.labels, fwd.max_seq_len)
       IN fwd' = [fwd EXCEPT !.stage = "returned",
                             !.logits = r.logits,
                             !.integer_labels = r.integer_labels,
                             !.skipped = SkipsBatch(r.logits)]
    /\ UNCHANGED <<pc, hp, self, loc, tp, trainable, obs, smp, ft>>

NextTrainHelper == TrainHelperCall

SpecTrainHelper == InitTrainHelper /\ [][NextTrainHelper]_vars

(* ================= the parameter stager, lines 84-94 ==================== *)
\* the modes are activated in any order, from any trainability state
InitStager ==
    /\ pc = "stager"
    /\ hp \in {h \in Hyperparameters :
                 /\ h.micro_batch_size = 1 /\ h.accum = 1
                 /\ \A k \in 1..4 : h.n_epochs[k] = 0}
    /\ self = InitSelf
    /\ loc = InitLoc
    /\ tp = InitTp
    /\ trainable \in SUBSET ParamGroups
    /\ obs = InitObs
    /\ fwd = NoFwd
    /\ smp = NoSmp
    /\ ft = NoFt

\* lines 91-94: one of the four set_* methods is called
ActivateMode ==
    /\ pc = "stager"
    /\ Len(obs.activated) < MaxActivations
    /\ \E k \in 1..4 :
         /\ trainable' = PhaseTrainable(trainable, k)
         /\ obs' = [obs EXCEPT !.activated = Append(@, Activation(trainable, k))]
    /\ UNCHANGED <<pc, hp, self, loc, tp, fwd, smp, ft>>

NextStager == ActivateMode

SpecStager == InitStager /\ [][NextStager]_vars

(* =============== the oversampled index list, lines 179-184 ============= *)
\* hp['min_less_portion'] for the sampler: absent, 0, fractions that binary
\* floating point represents exactly (1/4, 1/2, 3/4) and fractions that it rounds
\* (3/5, 7/10)
SamplerPortions ==
    PortionChoices \cup { [present |-> TRUE, num |-> 1, den |-> 4],
                          [present |-> TRUE, num |-> 3, den |-> 4],
                          [present |-> TRUE, num |-> 3, den |-> 5],
                          [present |-> TRUE, num |-> 7, den |-> 10] }

\* line 179: list(range(n))
range(n) == [i \in 1..n |-> i - 1]

\* the index partitions a training set of num_less minority and num_majority
\* majority samples can have: the minority samples stand at any num_less of its
\* positions
LessIndexSets(num_less, num_majority) ==
    { s \in SUBSET (0..(num_less + num_majority - 1)) : Cardinality(s) = num_less }

\* line 184: self.train_dataset.less_indexes
less_indexes == smp.less_indexes

\* line 184: the ways np.random.choice(less_indexes, n, replace=True).tolist() can
\* come out: the n drawn indices in the order drawn, each any of the minority
\* indices
Draws(indexes, n) == [1..n -> indexes]

InitSampler ==
    /\ pc = "sampler"
    /\ hp \in {h \in Hyperparameters : /\ \A k \in 1..4 : h.n_epochs[k] = 0
                                      /\ h.micro_batch_size = 1 /\ h.accum = 1}
    /\ self = InitSelf
    /\ loc = InitLoc
    /\ tp = InitTp
    /\ trainable = {}
    /\ obs = InitObs
    /\ fwd = NoFwd
    /\ ft = NoFt
    /\ \E num_less \in 0..MaxMinority, num_majority \in 0..MaxMajority,
          portion \in SamplerPortions :
         /\ num_less <= num_majority
         /\ \E indexes \in LessIndexSets(num_less, num_majority) :
              smp = [ stage |-> "loaded", num_less |-> num_less,
                      num_majority |-> num_majority, less_indexes |-> indexes,
                      portion |-> portion, base_indexes |-> <<>> ]

\* lines 179-184; the log of line 183 goes through the callback, which may raise
\* before anything is drawn
BuildIndexes ==
    /\ pc = "sampler"
    /\ smp.stage = "loaded"
    /\ LET m == smp.num_less
           M == smp.num_majority
       IN IF OversamplingRaises(smp.portion, m, M)
          THEN smp' = [smp EXCEPT !.stage = "raised"]
          ELSE IF NeedsOversampling(smp.portion, m, M)
          THEN \E extra \in {add_num(smp.portion, m, M)} :
                  IF extra > 0
                  THEN \/ smp' = [smp EXCEPT !.stage = "raised"]
                       \/ \E drawn \in Draws(less_indexes, extra) :
                             smp' = [smp EXCEPT !.stage = "built",
                                                !.base_indexes = range(m + M) \o drawn]
                  ELSE smp' = [smp EXCEPT !.stage = "built", !.base_indexes = range(m + M)]
          ELSE smp' = [smp EXCEPT !.stage = "built", !.base_indexes = range(m + M)]
    /\ UNCHANGED <<pc, hp, self, loc, tp, trainable, obs, fwd, ft>>

NextSampler == BuildIndexes

SpecSampler == InitSampler /\ [][NextSampler]_vars

(* ========= save_ft_model and _setup_peft, lines 50-82 ================== *)
\* A path is the list of its components and the file system maps the paths of the
\* files that exist to their contents. A component's content is a number: 0 for
\* the value a freshly constructed component has, 1..MaxWeight for trained values.
join(path, name) == path \o <<name>>

exists(fs, path) == path \in DOMAIN fs

\* fs with `content` written to `path`
Written(fs, path, content) ==
    [q \in DOMAIN fs \cup {path} |-> IF q = path THEN content ELSE fs[q]]

FinalModelPath == <<"final_model">>

\* ft_path=None
NoPath == <<>>

\* the decoder carries no adapter
NoAdapter == 0 - 1

\* PeftModel.save_pretrained(dir): the adapter's configuration and its weights
\* are written into dir
save_pretrained(fs, dir, adapter) ==
    Written(Written(fs, join(dir, "adapter_config.json"), adapter),
            join(dir, "adapter_model.safetensors"), adapter)

\* lines 77-82
save_ft_model(fs, path, model) ==
    Written(Written(save_pretrained(fs, join(path, "Llama_ft"), model.adapter),
                    join(path, "projector.pt"), model.projector),
            join(path, "classifier.pt"), model.classifier)

\* lines 35-41 and 22: the components as __init__ builds them, before _setup_peft
FreshModel == [ adapter |-> NoAdapter, projector |-> 0, classifier |-> 0 ]

\* line 51: `ft_path and os.path.exists(os.path.join(ft_path, 'adapter_config.json'))`
TakesLoadBranch(fs, ft_path) ==
    ft_path # NoPath /\ exists(fs, join(ft_path, "adapter_config.json"))

\* lines 50-75: the branch taken and the components the model ends with
setup_peft(fs, ft_path, is_train_mode) ==
    IF TakesLoadBranch(fs, ft_path)
    THEN IF /\ exists(fs, join(join(ft_path, "Llama_ft"), "adapter_config.json"))
            /\ exists(fs, join(ft_path, "projector.pt"))
            /\ exists(fs, join(ft_path, "classifier.pt"))
         THEN [ branch |-> "load",
                model |-> [ adapter |-> fs[join(join(ft_path, "Llama_ft"),
                                               "adapter_config.json")],
                            projector |-> fs[join(ft_path, "projector.pt")],
                            classifier |-> fs[join(ft_path, "classifier.pt")] ] ]
         ELSE [ branch |-> "load_raises", model |-> FreshModel ]
    ELSE IF is_train_mode
    THEN [ branch |-> "fresh", model |-> [FreshModel EXCEPT !.adapter = 0] ]
    ELSE [ branch |-> "warning", model |-> FreshModel ]

\* what the directory holds before the model is saved: nothing, or an
\* adapter_config.json left at its top level
InitialFileSystems ==
    { <<>>, [q \in {join(FinalModelPath, "adapter_config.json")} |-> 0] }

\* a trained model is in memory
InitPeft ==
    /\ pc = "peft"
    /\ hp \in {h \in Hyperparameters :
                 /\ h.micro_batch_size = 1 /\ h.accum = 1
                 /\ \A k \in 1..4 : h.n_epochs[k] = 0}
    /\ self = InitSelf
    /\ loc = InitLoc
    /\ tp = InitTp
    /\ trainable = {}
    /\ obs = InitObs
    /\ fwd = NoFwd
    /\ smp = NoSmp
    /\ \E a \in 1..MaxWeight, p \in 1..MaxWeight, c \in 1..MaxWeight,
          fs \in InitialFileSystems :
         ft = [ stage |-> "trained", fs |-> fs,
                model |-> [adapter |-> a, projector |-> p, classifier |-> c],
                saved |-> FALSE, ft_path |-> NoPath, is_train_mode |-> FALSE,
                branch |-> "none", loaded |-> FreshModel ]

\* training_controller.py lines 212-213: self.model.save_ft_model(final_model_path)
SaveFtModel ==
    /\ pc = "peft"
    /\ ft.stage = "trained"
    /\ ft' = [ft EXCEPT !.stage = "saved", !.saved = TRUE,
                        !.fs = save_ft_model(ft.fs, FinalModelPath, ft.model)]
    /\ UNCHANGED <<pc, hp, self, loc, tp, trainable, obs, fwd, smp>>

\* lines 16-48: a model is constructed with or without ft_path, in either mode
ConstructModel ==
    /\ pc = "peft"
    /\ ft.stage \in {"trained", "saved"}
    /\ \E with_path \in BOOLEAN, is_train_mode \in BOOLEAN :
         LET ft_path == IF with_path THEN FinalModelPath ELSE NoPath
             r == setup_peft(ft.fs, ft_path, is_train_mode)
         IN ft' = [ft EXCEPT !.stage = "constructed",
                             !.ft_path = ft_path,
                             !.is_train_mode = is_train_mode,
                             !.branch = r.branch,
                             !.loaded = r.model]
    /\ UNCHANGED <<pc, hp, self, loc, tp, trainable, obs, fwd, smp>>

NextPeft == SaveFtModel \/ ConstructModel

SpecPeft == InitPeft /\ [][NextPeft]_vars

(* ====================== properties of the controller ================== *)
TerminalStatuses == {"COMPLETED", "ABORTED", "FAILED"}

\* run() has exited, by returning or by an exception leaving it
Terminal == pc \in {"returned", "raised"}

\* once the callback has answered STOP: no micro-batch after that one, no later
\* phase activated, no evaluation
NothingAfterStop ==
    /\ self.global_step_count = obs.stop_step
    /\ obs.phases_started = obs.stop_phase
    /\ ~obs.evaluated
    /\ obs.eval_batches = 0

\* C1 as stated: if the status callback returns STOP for micro-batch k, no further
\* micro-batch executes, no later phase starts, evaluation is not run, and the run
\* ends with final status ABORTED.
C1_StopEndsAborted ==
    obs.stop_step > 0 =>
        /\ NothingAfterStop
        /\ Terminal => loc.final_status = "ABORTED"

\* C1 amended: as C1, but the final status is FAILED when the callback raises on the
\* "Stop request received" log event that follows its STOP (the only step of the try
\* block left to run), and ABORTED otherwise.
C1_StopEndsAbortedUnlessLogRaises ==
    obs.stop_step > 0 =>
        /\ NothingAfterStop
        /\ Terminal =>
              loc.final_status = IF obs.raised_in_try THEN "FAILED" ELSE "ABORTED"

\* a run cancelled by the first status event of its training, in the first of two
\* epochs of a phase that a later phase with epochs of its own follows: an epoch of
\* this phase and a later phase were left to run, and none of their micro-batches
\* has run
C1_Witness ==
    /\ pc = "returned"
    /\ obs.stop_step = 1
    /\ loc.final_status = "ABORTED"
    /\ \A k \in 1..(obs.stop_phase - 1) : hp.n_epochs[k] = 0
    /\ hp.n_epochs[obs.stop_phase] >= 2
    /\ \E k \in (obs.stop_phase + 1)..4 : hp.n_epochs[k] > 0
    /\ loc.base_len > 0
    /\ self.global_step_count = 1
    /\ obs.stop_step < self.total_training_steps

\* C2: on every exit path of run() the release of _cleanup has executed exactly once.
C2_CleanupExactlyOnce == Terminal => obs.cleanups = 1

\* C3 as stated: a run whose final status is ABORTED or FAILED has called neither
\* save_performance_metrics nor save_ft_model. Checked on the calls that returned
\* normally: a run that made neither call has no such call.
C3_PersistenceOnlyWhenCompleted ==
    (Terminal /\ loc.final_status \in {"ABORTED", "FAILED"}) =>
        ~obs.metrics_saved /\ ~obs.model_saved

\* C3 amended: a run whose final status is ABORTED has called neither; whenever one
\* of the two calls has occurred no STOP was answered, all four phases were run and
\* evaluation ran, and the final status is COMPLETED or, when a step of the try
\* block raised afterwards, FAILED.
C3_PersistenceOnlyAfterAllPhases ==
    /\ loc.final_status = "ABORTED" => ~obs.metrics_called /\ ~obs.model_called
    /\ (obs.metrics_called \/ obs.model_called) =>
          /\ obs.stop_step = 0
          /\ obs.phases_started = 4
          /\ obs.evaluated
          /\ obs.model_called => obs.metrics_saved
          /\ Terminal =>
                loc.final_status = IF obs.raised_in_try THEN "FAILED" ELSE "COMPLETED"

\* a cancelled run that has ended, with losses recorded and nothing persisted
C3_Witness ==
    /\ Terminal
    /\ loc.final_status = "ABORTED"
    /\ self.batch_losses > 0
    /\ ~obs.metrics_called /\ ~obs.model_called

\* C4: an exception raised by a step of the try block is caught once, produces a
\* callback event carrying `error`, leaves the final status FAILED, and FAILED is the
\* status written to the run record when a run id exists.
C4_ExceptionReportedAndRecorded ==
    (Terminal /\ obs.raised_in_try) =>
        /\ obs.caught = 1
        /\ obs.error_events = 1
        /\ loc.final_status = "FAILED"
        /\ Truthy(self.run_id) => obs.record_status = "FAILED"

\* C5 as stated: the value run() returns is one of COMPLETED, ABORTED, FAILED and
\* equals the final status.
C5_ReturnsTerminalStatus ==
    pc = "returned" =>
        obs.ret \in TerminalStatuses /\ obs.ret = loc.final_status

\* C5 amended: run() returns None; when it returns, the final status is one of
\* COMPLETED, ABORTED, FAILED and has been handed to the callback as the status
\* field of the one done event.
C5_ReturnsNoneStatusInDoneEvent ==
    pc = "returned" =>
        /\ obs.ret = "None"
        /\ loc.final_status \in TerminalStatuses
        /\ obs.done_events = 1
        /\ obs.done_status = loc.final_status

\* run() has returned after a cancelled or a failed run
C5_Witness ==
    /\ pc = "returned"
    /\ loc.final_status \in {"ABORTED", "FAILED"}
    /\ obs.done_events = 1

\* C6: the progress of every training status event is at most 1.0.
C6_ProgressAtMostOne == obs.prog_num <= obs.prog_den

\* C7: between two micro-batches of an epoch, one optimizer step has been taken per
\* grad_accum_steps micro-batches run so far, and every step taken had the
\* gradients of exactly grad_accum_steps micro-batches accumulated.
C7_StepEveryAccumSteps ==
    pc = "mb" =>
        /\ tp.opt_steps = tp.i_th \div grad_accum_steps(hp)
        /\ tp.last_step_accum \in {0, grad_accum_steps(hp)}

\* the phases whose configured epoch count is zero or negative
SkippedPhases == {k \in 1..4 : hp.n_epochs[k] <= 0}

\* no iteration of the micro-batch loop, no status event and no loss belongs to a
\* skipped phase, and a cancellation never comes out of one
NoActivityInSkippedPhases ==
    /\ obs.stepped_phases \cap SkippedPhases = {}
    /\ obs.status_phases \cap SkippedPhases = {}
    /\ pc \in {"epoch", "mb"} => loc.phase \notin SkippedPhases
    /\ loc.final_status = "ABORTED" => loc.phase \notin SkippedPhases

\* the step budget when only the phases that are not skipped count
StepsOfExecutedPhases ==
    Pos(hp.n_epochs[1]) * batches_per_epoch(hp, loc.base_len)
      + Pos(hp.n_epochs[2]) * batches_per_epoch(hp, loc.base_len)
      + Pos(hp.n_epochs[3]) * batches_per_epoch(hp, loc.base_len)
      + Pos(hp.n_epochs[4]) * batches_per_epoch(hp, loc.base_len)

\* total_training_steps has been computed (line 187) and run() is in its phase loop
InPhaseLoop == pc \in {"build", "phase", "epoch", "mb"}

\* C11: a phase whose epoch count is <= 0 runs no micro-batch, emits no status
\* event, appends no loss, returns success, and contributes nothing to
\* total_training_steps; with epochs [0, 0, 1, 0] only phase 3 runs training steps.
C11_SkippedPhaseIsNoOp ==
    /\ NoActivityInSkippedPhases
    /\ InPhaseLoop => self.total_training_steps = StepsOfExecutedPhases
    /\ hp.n_epochs = <<0, 0, 1, 0>> => obs.stepped_phases \subseteq {3}

\* C11, the part that holds of the code: skipped phases are inert, whatever the sign
\* of their epoch count.
C11_SkippedPhaseInert ==
    /\ NoActivityInSkippedPhases
    /\ hp.n_epochs = <<0, 0, 1, 0>> => obs.stepped_phases \subseteq {3}

\* _initialize_run has run and left no run id: create_new_run returned None or raised
SetupFailed == pc \in {"except", "finally", "cleanup", "done_event", "returned", "raised"}
                 /\ obs.monitor_starts = 1
                 /\ self.run_id = "None"

\* nothing of the training has happened
NothingTrained ==
    /\ ~self.datasets /\ ~self.model
    /\ loc.base_len = 0
    /\ obs.phases_started = 0 /\ trainable = {}
    /\ self.global_step_count = 0 /\ obs.status_events = 0
    /\ ~obs.evaluated /\ obs.eval_batches = 0

\* C14: when run-record creation fails the run ends FAILED before any training: no
\* dataset, no model, no phase, no micro-batch, no evaluation; the monitor is still
\* stopped, cleanup still runs and the done event reports FAILED.
C14_SetupFailureFailsFast ==
    SetupFailed =>
        /\ NothingTrained
        /\ loc.final_status = "FAILED"
        /\ Terminal =>
              /\ obs.monitor_stops = 1
              /\ obs.cleanups = 1
              /\ obs.done_events = 1
              /\ obs.done_status = "FAILED"

\* C14, the part that holds of the code: nothing is trained, the status is FAILED and
\* monitor.stop() is called once.
C14_SetupFailureTrainsNothing ==
    SetupFailed =>
        /\ NothingTrained
        /\ loc.final_status = "FAILED"
        /\ Terminal => obs.monitor_stops = 1

\* a monitor that was started has been stopped by the time run() has exited, and
\* after the stop no training micro-batch and no evaluation batch runs
StartedMonitorStopped ==
    /\ obs.monitor_stops <= obs.monitor_starts
    /\ (Terminal /\ obs.monitor_starts = 1) => obs.monitor_stops = 1
    /\ obs.monitor_stops = 1 =>
          /\ self.global_step_count = obs.steps_at_stop
          /\ obs.eval_batches = obs.evals_at_stop

\* C15: the resource monitor is started exactly once at the beginning of run() and
\* stopped exactly once at its end whatever the outcome, and after the stop no
\* training micro-batch and no evaluation batch runs.
C15_MonitorStartedAndStoppedOnce ==
    /\ obs.monitor_starts = (IF pc = "start" THEN 0 ELSE 1)
    /\ Terminal => obs.monitor_stops = 1
    /\ StartedMonitorStopped

\* C15, the part that holds of the code: the monitor is started at most once, and
\* a monitor whose start succeeded is stopped exactly once, after the last
\* micro-batch and the last evaluation batch.
C15_StartedMonitorStoppedOnce ==
    /\ obs.monitor_starts <= 1
    /\ StartedMonitorStopped

\* C16: between two micro-batches of a phase, every micro-batch iteration run so
\* far, degenerate ones included, has been followed by a status event whose answer
\* was read.
C16_StatusAfterEveryMicroBatch ==
    pc = "mb" => obs.status_events = self.global_step_count

\* C16, the part that holds of the code: every micro-batch that was not skipped as
\* degenerate has been followed by a status event (one loss is appended per event).
C16_StatusAfterEveryTrainedMicroBatch ==
    pc = "mb" => obs.status_events = self.batch_losses

\* the sum over the four phases of epochs * floor(len(indices) / micro_batch_size)
FloorSum ==
    (hp.n_epochs[1] + hp.n_epochs[2] + hp.n_epochs[3] + hp.n_epochs[4])
        * (loc.base_len \div hp.micro_batch_size)

\* C20: total_training_steps is the sum over the phases of
\* epochs * floor(len(indices) / micro_batch_size), and when all four phases have
\* completed without cancellation it equals global_step_count.
C20_StepAccounting ==
    /\ InPhaseLoop => self.total_training_steps = FloorSum
    /\ pc = "eval" => self.global_step_count = self.total_training_steps

\* C20, the part that holds of the code: total_training_steps is that sum.
C20_TotalIsFloorSum ==
    InPhaseLoop => self.total_training_steps = FloorSum

\* line 232 has been reached: the teardown of run() has run to its end
TeardownCompleted == obs.done_events >= 1

\* C21: a run whose teardown completes emits exactly one done event; nothing of
\* the run follows it; the release of _cleanup precedes it; its status is one of
\* COMPLETED, ABORTED, FAILED and is the status written to the run record when a
\* run id exists; and when the callback never answers STOP it is not ABORTED.
C21_OneDoneEventLast ==
    /\ obs.done_events <= 1
    /\ TeardownCompleted =>
          /\ Terminal
          /\ obs.cleanups = 1
          /\ obs.monitor_stops = 1
          /\ obs.done_status \in TerminalStatuses
          /\ obs.done_status = loc.final_status
          /\ Truthy(self.run_id) => obs.record_status = obs.done_status
          /\ ~Truthy(self.run_id) => obs.record_status = "unset"
          /\ obs.stop_step = 0 => obs.done_status # "ABORTED"
    /\ pc = "returned" => TeardownCompleted

\* a completed run with a run record: the done event and the record both say
\* COMPLETED
C21_Witness ==
    /\ pc = "returned"
    /\ Truthy(self.run_id)
    /\ obs.done_events = 1
    /\ obs.cleanups = 1
    /\ obs.done_status = "COMPLETED"
    /\ obs.record_status = "COMPLETED"

(* ======================== properties of the stager ==================== *)
\* the trainable set each mode is specified to have
ModeSet(k) ==
    CASE k = 1 -> {"projector"}
      [] k = 2 -> {"classifier"}
      [] k = 3 -> {"projector", "classifier"}
      [] OTHER -> {"projector", "classifier", "llama_lora"}

\* run() is executing (and not one of the components on its own)
InController == pc \notin {"model", "sampler", "stager"}

\* C17: every activation of a mode, from whatever trainability state, leaves
\* exactly that mode's groups trainable and everything else frozen; the trainable
\* set is always that of the most recently activated mode; and run() activates the
\* modes in the order a, b, c, d.
C17_StagerExact ==
    /\ \A i \in 1..Len(obs.activated) :
          obs.activated[i].after = ModeSet(obs.activated[i].mode)
    /\ Len(obs.activated) >= 1 =>
          trainable = ModeSet(obs.activated[Len(obs.activated)].mode)
    /\ InController =>
          /\ Len(obs.activated) = obs.phases_started
          /\ \A i \in 1..Len(obs.activated) : obs.activated[i].mode = i

\* all four modes have been activated in a run, the first from the state the
\* constructors leave, in which the encoder and the adapters are trainable
C17_Witness ==
    /\ InController
    /\ Len(obs.activated) = 4
    /\ obs.activated[1].before = ConstructedTrainable
    /\ obs.activated[4].before = {"projector", "classifier"}
    /\ trainable = {"projector", "classifier", "llama_lora"}

\* mode k + 1 is activated right after mode k, as run() does
Successive(i) ==
    /\ i \in 1..(Len(obs.activated) - 1)
    /\ obs.activated[i + 1].mode = obs.activated[i].mode + 1

\* C18 as stated: for each consecutive pair of phases (1 to 2, 2 to 3, 3 to 4) the
\* trainable set of the later phase contains that of the earlier one.
C18_CurriculumAdditive ==
    \A i \in 1..Len(obs.activated) :
        Successive(i) => obs.activated[i].after \subseteq obs.activated[i + 1].after

\* C18 amended: the later set contains the earlier one for the pairs 2 to 3 and
\* 3 to 4, and the set of phase 3 contains that of phase 1; the sets of phases 1
\* and 2 are disjoint.
C18_CurriculumAdditiveFromPhaseTwo ==
    \A i \in 1..(Len(obs.activated) - 1) :
        LET a == obs.activated[i]
            b == obs.activated[i + 1]
        IN /\ (Successive(i) /\ a.mode >= 2) => a.after \subseteq b.after
           /\ (a.mode = 1 /\ b.mode = 3) => a.after \subseteq b.after
           /\ (a.mode = 1 /\ b.mode = 2) => a.after \cap b.after = {}

\* phase 4 activated right after phase 3: the adapters are added to the projector
\* and the classifier
C18_Witness ==
    /\ pc = "stager"
    /\ Len(obs.activated) = 2
    /\ obs.activated[1].mode = 3 /\ obs.activated[2].mode = 4
    /\ obs.activated[1].after = {"projector", "classifier"}
    /\ obs.activated[2].after = {"projector", "classifier", "llama_lora"}

(* ======================= properties of the sampler ==================== *)
\* the index list has been built without an error
IndexesBuilt == pc = "sampler" /\ smp.stage = "built"

\* 0 < min_less_portion < 1
PortionInRange == smp.portion.present /\ 0 < smp.portion.num /\ smp.portion.num < smp.portion.den

\* the original minority fraction is below min_less_portion
BelowPortion ==
    smp.num_less * smp.portion.den < smp.portion.num * (smp.num_less + smp.num_majority)

\* how many entries of the index list are minority samples
MinorityEntries ==
    Cardinality({k \in 1..Len(smp.base_indexes) :
                    smp.base_indexes[k] \in less_indexes})

\* the index list is range(len(train_dataset)) followed by minority indices only
OnlyMinorityAdded ==
    /\ Len(smp.base_indexes) >= smp.num_less + smp.num_majority
    /\ SubSeq(smp.base_indexes, 1, smp.num_less + smp.num_majority)
          = range(smp.num_less + smp.num_majority)
    /\ \A k \in (smp.num_less + smp.num_majority + 1)..Len(smp.base_indexes) :
          smp.base_indexes[k] \in less_indexes

\* with one more minority entry the minority fraction of the list is at least
\* min_less_portion
WithinOneSample ==
    (MinorityEntries + 1) * smp.portion.den
        >= smp.portion.num * (Len(smp.base_indexes) + 1)

IndexesUnchanged == smp.base_indexes = range(smp.num_less + smp.num_majority)

\* C12 as stated: for every training set and 0 < min_less_portion < 1, a minority
\* fraction below min_less_portion is raised to within one sample of it by adding
\* minority indices only, and otherwise the index list is range(len(train_dataset)).
C12_OversamplingFloor ==
    (IndexesBuilt /\ PortionInRange) =>
        IF BelowPortion
        THEN WithinOneSample /\ OnlyMinorityAdded
        ELSE IndexesUnchanged

\* C12 amended: as C12 for a training set that has at least one minority sample; a
\* training set with no minority sample keeps the index list range(len(train_dataset)).
C12_OversamplingFloorWhenMinorityExists ==
    (IndexesBuilt /\ PortionInRange) =>
        IF BelowPortion /\ smp.num_less > 0
        THEN WithinOneSample /\ OnlyMinorityAdded
        ELSE IndexesUnchanged

\* a list that was extended where the floating-point quotient falls short of the
\* exact one: 1 minority and 2 majority samples at portion 3/5, where
\* (0.6 * 2) / (1 - 0.6) = 2.9999999999999996 and one index is drawn, not two
C12_Witness ==
    /\ IndexesBuilt
    /\ smp.num_less = 1 /\ smp.num_majority = 2
    /\ smp.portion = [present |-> TRUE, num |-> 3, den |-> 5]
    /\ Len(smp.base_indexes) = 4
    /\ MinorityEntries = 2

\* C13: when min_less_portion is absent or 0, the index list is built without an
\* error and is exactly range(len(train_dataset)), whatever the minority fraction.
C13_AbsentOrZeroDisablesOversampling ==
    (pc = "sampler" /\ smp.stage # "loaded"
        /\ (~smp.portion.present \/ smp.portion.num = 0)) =>
        /\ smp.stage = "built"
        /\ IndexesUnchanged

\* C13, the part that holds of the code: min_less_portion = 0 disables oversampling.
C13_ZeroDisablesOversampling ==
    (pc = "sampler" /\ smp.stage # "loaded"
        /\ smp.portion.present /\ smp.portion.num = 0) =>
        /\ smp.stage = "built"
        /\ IndexesUnchanged

(* ==================== properties of the model pipeline ================ *)
\* forward has been called on a batch
ForwardCalled == pc = "model" /\ fwd.last_seqs # <<>>

\* sample i of the last batch keeps at least one line after truncation
Survives(i) == Min(Len(fwd.last_seqs[i]), fwd.max_seq_len) > 0

\* the number of surviving samples among the first i of the last batch
Rank(i) == Cardinality({k \in 1..i : Survives(k)})

\* C8: a test sample whose forward row is the sentinel is absent from the arrays
\* the metrics are computed from, and is counted in no cell of the confusion matrix.
C8_SentinelRowsExcluded ==
    (pc = "model" /\ fwd.stage = "scored") =>
        /\ \A i \in 1..Len(fwd.all_logits) :
              fwd.all_logits[i] = Sentinel => i \notin fwd.valid
        /\ fwd.confusion[0][0] + fwd.confusion[0][1]
             + fwd.confusion[1][0] + fwd.confusion[1][1]
             = Cardinality({i \in 1..Len(fwd.all_logits) : fwd.all_logits[i] # Sentinel})

\* C9: forward returns one row per input sample; the row at the index of a
\* surviving sample is the row _get_logits computed for it (the Rank-th one), and
\* the row at the index of a dropped sample is the sentinel.
C9_ForwardRowPerSample ==
    ForwardCalled =>
        /\ Len(fwd.last_logits) = Len(fwd.last_seqs)
        /\ \A i \in 1..Len(fwd.last_seqs) :
              IF Survives(i)
              THEN /\ fwd.last_logits[i] # Sentinel
                   /\ fwd.last_logits[i]
                        = get_logits(fwd.last_seqs, fwd.max_seq_len).logits[Rank(i)]
              ELSE fwd.last_logits[i] = Sentinel

\* a batch whose first sample is dropped and whose second sample survives
C9_Witness ==
    /\ ForwardCalled
    /\ Len(fwd.last_seqs) = 2
    /\ ~Survives(1) /\ Survives(2)
    /\ fwd.last_logits[1] = Sentinel
    /\ fwd.last_logits[2] # Sentinel

\* C10: the column index taken for every surviving sample, its attention-mask row
\* sum minus 1, is padded_length - 1, the last column of the left-padded batch.
C10_IndexIsLastColumn ==
    ForwardCalled =>
        \A j \in 1..Len(fwd.last_lengths) :
            fwd.last_lengths[j] = fwd.last_padded_length - 1

(* ====================== properties of train_helper ==================== *)
\* train_helper has returned
TrainHelperReturned == pc = "train_helper" /\ fwd.stage = "returned"

\* the (1-based) position in the batch of the j-th surviving sample
SurvivorAt(j) ==
    CHOOSE i \in 1..Len(fwd.last_seqs) : Survives(i) /\ Rank(i) = j

\* C19: train_helper returns one logits row and one integer label per surviving
\* sample and nothing else; the j-th label is the class id of the label at the
\* original index of the j-th surviving sample; no row is the sentinel; the j-th
\* row is the one _get_logits computed; and the controller skips the micro-batch
\* exactly when every sample was dropped, in which case the result has zero rows.
C19_TrainHelperAligned ==
    TrainHelperReturned =>
        /\ Len(fwd.logits) = Rank(Len(fwd.last_seqs))
        /\ Len(fwd.integer_labels) = Rank(Len(fwd.last_seqs))
        /\ \A j \in 1..Len(fwd.logits) :
              /\ fwd.integer_labels[j]
                    = (IF fwd.labels[SurvivorAt(j)] = "anomalous" THEN 1 ELSE 0)
              /\ fwd.logits[j] # Sentinel
              /\ fwd.logits[j] = get_logits(fwd.last_seqs, fwd.max_seq_len).logits[j]
        /\ fwd.skipped <=> (\A i \in 1..Len(fwd.last_seqs) : ~Survives(i))
        /\ fwd.skipped => Len(fwd.logits) = 0

\* a batch whose first sample, labelled normal, is dropped and whose second sample,
\* labelled anomalous, survives
C19_Witness ==
    /\ TrainHelperReturned
    /\ Len(fwd.last_seqs) = 2
    /\ ~Survives(1) /\ Survives(2)
    /\ fwd.labels = <<"normal", "anomalous">>
    /\ fwd.integer_labels = <<1>>
    /\ Len(fwd.logits) = 1

(* ================ properties of save_ft_model / _setup_peft =========== *)
\* a model has been constructed with ft_path = P after save_ft_model(P)
ConstructedFromSaved ==
    /\ pc = "peft"
    /\ ft.stage = "constructed"
    /\ ft.saved
    /\ ft.ft_path = FinalModelPath

\* C22: a model constructed with ft_path = P after save_ft_model(P) takes the load
\* branch of _setup_peft and has the saved adapter, projector and classifier.
C22_SaveLoadRoundTrip ==
    ConstructedFromSaved =>
        /\ ft.branch = "load"
        /\ ft.loaded = ft.model

\* C22, the part that holds of the code: save_ft_model writes the three components
\* under P, and when the load branch is taken after it, they are restored.
C22_LoadBranchRestores ==
    /\ (pc = "peft" /\ ft.saved) =>
          /\ ft.fs[join(join(FinalModelPath, "Llama_ft"), "adapter_config.json")]
                = ft.model.adapter
          /\ ft.fs[join(FinalModelPath, "projector.pt")] = ft.model.projector
          /\ ft.fs[join(FinalModelPath, "classifier.pt")] = ft.model.classifier
    /\ (ConstructedFromSaved /\ ft.branch = "load") => ft.loaded = ft.model

====
